---- MODULE Spec2Model ----
(***************************************************************************)
(* The per-guild playback state machine of src/bot.js, for one guild.      *)
(*                                                                         *)
(* Node runs every handler to its next await without interruption, so one  *)
(* action of this module is one such synchronous segment: a command up to  *)
(* its next await, a timer callback, a transport event handler, or the     *)
(* continuation of playNextTrack after play.stream settles.                *)
(*                                                                         *)
(* Session objects live in a heap (sess) because closures keep a session   *)
(* after queues.delete(guildId) took it out of the table: commandPlay and  *)
(* the transport handlers use the object they captured, playNextTrack      *)
(* looks the guild up again with getQueue.                                 *)
(***************************************************************************)
EXTENDS Integers, Sequences, FiniteSets, TLC

\* ---------------------------------------------------------------- constants
MAX_RETRIES ==
  2

OFF ==
  0

TRACK ==
  1

QUEUE ==
  2

\* ------------------------------------------------------------------- bounds
\* play commands issued in one behaviour of Spec, which interleaves every
\* command and event; the n-th accepted push carries track n
MaxPlays ==
  2

\* play commands issued in one behaviour of the specifications that leave
\* teardown out and so can afford one more (at least MaxPlays)
MaxPlaysOff ==
  3

\* session objects ever created by getQueue
MaxSessions ==
  2

\* playNextTrack executions suspended at "await play.stream" at one time
MaxRuns ==
  2

\* pending setTimeout(() => playNextTrack(guildId)) callbacks at one time
MaxTimers ==
  2

\* attempts[t] counts up to this value and then stays there
MaxAttempts ==
  4

\* guilds that send commands to the single-queue variant
MaxGuilds ==
  2

\* songs pushed by %play in one behaviour of the single-queue variant
MaxSongs ==
  3

\* playSong executions suspended at "await play.stream" at one time
MaxLoads ==
  2

Tracks ==
  1..MaxPlaysOff

\* the track whose stream never resolves under the resolver "bad1": the one
\* that is pushed first
BadTrack ==
  CHOOSE t \in Tracks : \A u \in Tracks : t <= u

VARIABLES
  queues,    \* the table entry of the guild: 0, or the index in sess of its session
  sess,      \* every session object created so far (sequence of records)
  runs,      \* playNextTrack executions awaiting play.stream: [s, track]
  timers,    \* number of pending setTimeout(() => playNextTrack(guildId))
  cmds,      \* commandPlay executions: [stage, s, track, busy, idle]; busy and
             \* idle are history: the session was playing when the execution
             \* pushed its track, its idle timer was pending when it began
  npushed,   \* number of tracks pushed by commandPlay so far
  resolver,  \* what play.stream does in this behaviour: "any", "fails", "bad1"
  attempts,  \* history: play.stream calls made for each track that never resolves
  noticed,   \* history: tracks named in a 'Playback Error' notice
  loaded,    \* history: tracks handed to player.play
  single     \* the globals of the single-queue variant (src/unnamed/part_000)

vars ==
  <<queues, sess, runs, timers, cmds, npushed, resolver, attempts, noticed, loaded,
    single>>

\* The Audio Resolution collaborator.  "any": each call of play.stream resolves
\* or throws; "fails": every call throws; "bad1": the calls for BadTrack throw
\* and all others resolve.
Unresolvable(t) ==
  \/ resolver = "fails"
  \/ resolver = "bad1" /\ t = BadTrack

MayResolve(t) ==
  ~Unresolvable(t)

MayFail(t) ==
  resolver = "any" \/ Unresolvable(t)

\* --------------------------------------------------------------- the world
\* The part of the state that playNextTrack and its helpers read and write,
\* as one record, so that a handler calling them twice composes.
World ==
  [queues |-> queues, sess |-> sess, runs |-> runs, timers |-> timers,
   counted |-> {t \in Tracks : Unresolvable(t)}, attempts |-> attempts, noticed |-> noticed, loaded |-> loaded]

Install(w) ==
  /\ queues' = w.queues
  /\ sess' = w.sess
  /\ runs' = w.runs
  /\ timers' = w.timers
  /\ attempts' = w.attempts
  /\ noticed' = w.noticed
  /\ loaded' = w.loaded

\* the bounds, as a guard on the result of an action
Within(w) ==
  /\ Len(w.sess) <= MaxSessions
  /\ Len(w.runs) <= MaxRuns
  /\ w.timers <= MaxTimers

Min(a, b) ==
  IF a < b THEN a ELSE b

RemoveAt(s, i) ==
  SubSeq(s, 1, i - 1) \o SubSeq(s, i + 1, Len(s))

Range(s) ==
  {s[i] : i \in DOMAIN s}

\* runs is a bag: the order in which the executions were suspended decides
\* nothing (any of them may settle next), so the sequence is kept sorted.
Before(r1, r2) ==
  r1.s < r2.s \/ (r1.s = r2.s /\ r1.track <= r2.track)

Suspend(rs, r) ==
  LET k == Cardinality({i \in DOMAIN rs : Before(rs[i], r)})
  IN SubSeq(rs, 1, k) \o <<r>> \o SubSeq(rs, k + 1, Len(rs))

\* ----------------------------------------------------------------- getQueue
NewSession ==
  [queue |-> <<>>, connection |-> "null", currentTrack |-> 0,
   isPlaying |-> FALSE, loopMode |-> OFF, idleTimeout |-> FALSE,
   idlePending |-> FALSE, textChannel |-> FALSE, retryCount |-> 0,
   status |-> "idle", resource |-> 0, stopping |-> FALSE, skipped |-> 0,
   dropped |-> 0]

getQueue(w) ==
  IF w.queues = 0
  THEN [w EXCEPT !.sess = Append(@, NewSession), !.queues = Len(w.sess) + 1]
  ELSE w

\* ------------------------------------------------------------- idle timeout
clearIdleTimeout(w) ==
  IF w.queues # 0 /\ w.sess[w.queues].idleTimeout
  THEN [w EXCEPT !.sess[w.queues].idleTimeout = FALSE,
                 !.sess[w.queues].idlePending = FALSE]
  ELSE w

setIdleTimeout(w) ==
  LET w1 == clearIdleTimeout(w)
  IN IF w1.queues = 0
     THEN w1
     ELSE [w1 EXCEPT !.sess[w1.queues].idleTimeout = TRUE,
                     !.sess[w1.queues].idlePending = TRUE]

\* playNextTrack that leaves isPlaying as it is when the queue is empty
playNextTrackKeepsPlaying(w) ==
  LET w1 == getQueue(w)
      g == w1.queues
      q == w1.sess[g]
  IN IF q.queue = <<>>
     THEN setIdleTimeout([w1 EXCEPT !.sess[g].currentTrack = 0,
                                    !.sess[g].skipped = 0,
                                    !.sess[g].dropped = 0])
     ELSE LET w2 == clearIdleTimeout(w1)
              again == q.loopMode = TRACK /\ q.currentTrack # 0
              track == IF again THEN q.currentTrack ELSE Head(q.queue)
              rest == IF again THEN q.queue
                      ELSE IF q.loopMode = QUEUE
                           THEN Append(Tail(q.queue), track)
                           ELSE Tail(q.queue)
          IN [w2 EXCEPT !.sess[g].queue = rest,
                        !.sess[g].currentTrack = track,
                        !.sess[g].isPlaying = TRUE,
                        !.sess[g].retryCount = 0,
                        !.sess[g].skipped = 0,
                        !.sess[g].dropped = 0,
                        !.runs = Suspend(@, [s |-> g, track |-> track]),
                        !.attempts[track] =
                           IF track \in w.counted THEN Min(@ + 1, MaxAttempts) ELSE @]

\* playNextTrack without "queue.queue.push(track)" under LoopMode.QUEUE
playNextTrackNoRequeue(w) ==
  LET w1 == getQueue(w)
      g == w1.queues
      q == w1.sess[g]
  IN IF q.queue = <<>>
     THEN setIdleTimeout([w1 EXCEPT !.sess[g].currentTrack = 0,
                                    !.sess[g].isPlaying = FALSE,
                                    !.sess[g].skipped = 0,
                                    !.sess[g].dropped = 0])
     ELSE LET w2 == clearIdleTimeout(w1)
              again == q.loopMode = TRACK /\ q.currentTrack # 0
              track == IF again THEN q.currentTrack ELSE Head(q.queue)
              rest == IF again THEN q.queue ELSE Tail(q.queue)
          IN [w2 EXCEPT !.sess[g].queue = rest,
                        !.sess[g].currentTrack = track,
                        !.sess[g].isPlaying = TRUE,
                        !.sess[g].retryCount = 0,
                        !.sess[g].skipped = 0,
                        !.sess[g].dropped = 0,
                        !.runs = Suspend(@, [s |-> g, track |-> track]),
                        !.attempts[track] =
                           IF track \in w.counted THEN Min(@ + 1, MaxAttempts) ELSE @]

\* ----------------------------------------------------------- playNextTrack
\* The synchronous part, up to "await play.stream(track.url)".
playNextTrack(w) ==
  LET w1 == getQueue(w)
      g == w1.queues
      q == w1.sess[g]
  IN IF q.queue = <<>>
     THEN setIdleTimeout([w1 EXCEPT !.sess[g].currentTrack = 0,
                                    !.sess[g].isPlaying = FALSE,
                                    !.sess[g].skipped = 0,
                                    !.sess[g].dropped = 0])
     ELSE LET w2 == clearIdleTimeout(w1)
              again == q.loopMode = TRACK /\ q.currentTrack # 0
              track == IF again THEN q.currentTrack ELSE Head(q.queue)
              rest == IF again THEN q.queue
                      ELSE IF q.loopMode = QUEUE
                           THEN Append(Tail(q.queue), track)
                           ELSE Tail(q.queue)
          IN [w2 EXCEPT !.sess[g].queue = rest,
                        !.sess[g].currentTrack = track,
                        !.sess[g].isPlaying = TRUE,
                        !.sess[g].retryCount = 0,
                        !.sess[g].skipped = 0,
                        !.sess[g].dropped = 0,
                        !.runs = Suspend(@, [s |-> g, track |-> track]),
                        !.attempts[track] =
                           IF track \in w.counted THEN Min(@ + 1, MaxAttempts) ELSE @]

\* play.stream resolved: createAudioResource, player.play, 'Now Playing'.
StreamResolved(w, i) ==
  LET r == w.runs[i]
  IN [w EXCEPT !.runs = RemoveAt(@, i),
               !.sess[r.s].status = "playing",
               !.sess[r.s].resource = r.track,
               !.sess[r.s].stopping = FALSE,
               !.sess[r.s].dropped = IF @ = r.track THEN 0 ELSE @,
               !.loaded = @ \cup {r.track}]

\* play.stream threw: the catch branch.
StreamFailed(w, i) ==
  LET r == w.runs[i]
      q == w.sess[r.s]
  IN IF q.retryCount < MAX_RETRIES
     THEN [w EXCEPT !.runs = RemoveAt(@, i),
                    !.sess[r.s].retryCount = @ + 1,
                    !.sess[r.s].dropped = IF @ = r.track THEN 0 ELSE @,
                    !.timers = @ + 1]
     ELSE [w EXCEPT !.runs = RemoveAt(@, i),
                    !.noticed = IF q.textChannel THEN @ \cup {r.track} ELSE @,
                    !.sess[r.s].dropped = IF @ = r.track THEN 0 ELSE @,
                    !.timers = @ + 1]

\* The globals of the single-queue variant after the module was loaded: queue,
\* isPlaying, player, connection (0: undefined, else the guild whose channel
\* was joined last) and lastMessage (0: undefined, else the guild it came
\* from).  A song is [id, by]: the n-th song pushed has id n, by is the guild
\* whose %play pushed it.  searching holds the guilds whose %play awaits
\* play.search, loads the ids of the songs whose playSong awaits play.stream
\* (sorted, as runs is).  alive is FALSE once the process has exited.
\* History: loaded (songs handed to player.play) and cleared (songs that
\* %stop took out of the queue).
NewSingle ==
  [queue |-> <<>>, isPlaying |-> FALSE, status |-> "idle", resource |-> 0,
   stopping |-> FALSE, connection |-> 0, lastMessage |-> 0, searching |-> {},
   loads |-> <<>>, npushed |-> 0, alive |-> TRUE, loaded |-> {}, cleared |-> {}]

\* ------------------------------------------------------------------ actions
Start ==
  /\ single = NewSingle
  /\ queues = 0
  /\ sess = <<>>
  /\ runs = <<>>
  /\ timers = 0
  /\ cmds = [c \in 1..MaxPlaysOff |-> [stage |-> "new", s |-> 0, track |-> 0,
                                     busy |-> FALSE, idle |-> FALSE]]
  /\ npushed = 0
  /\ attempts = [t \in Tracks |-> 0]
  /\ noticed = {}
  /\ loaded = {}

Init ==
  /\ Start
  /\ resolver = "any"

\* a commandPlay execution that returned
Finished ==
  [stage |-> "done", s |-> 0, track |-> 0, busy |-> FALSE, idle |-> FALSE]

\* commandPlay up to "await message.reply" / "await searchYouTube": getQueue
\* and the two checks on the caller.
commandPlayBegin(c, inVoice, hasArgs) ==
  LET w == getQueue(World)
  IN /\ cmds[c].stage = "new"
     /\ \A d \in 1..(c - 1) : cmds[d].stage # "new"
     /\ Within(w)
     /\ Install(w)
     /\ IF inVoice /\ hasArgs
        THEN cmds' = [cmds EXCEPT ![c] = [stage |-> "search", s |-> w.queues, track |-> 0,
                                              busy |-> FALSE,
                                              idle |-> w.sess[w.queues].idlePending]]
        ELSE UNCHANGED cmds
     /\ UNCHANGED <<npushed, resolver, single>>

\* searchYouTube returned null.
commandPlayNotFound(c) ==
  /\ cmds[c].stage = "search"
  /\ cmds' = [cmds EXCEPT ![c] = Finished]
  /\ UNCHANGED <<queues, sess, runs, timers, npushed, resolver, single, attempts, noticed, loaded>>

\* The 'Position' field of the embed that commandPlay builds after the push,
\* for the session q as the push left it.
position(q) ==
  Len(q.queue) + (IF q.isPlaying THEN 1 ELSE 0)

\* searchYouTube returned a video: push, join the voice channel if there is no
\* connection, build the embed, up to "await searchMsg.edit".
commandPlayPush(c, permitted) ==
  LET s == cmds[c].s
      track == npushed + 1
      q == sess[s]
      pushed == [q EXCEPT !.queue = Append(@, track), !.textChannel = TRUE]
  IN /\ cmds[c].stage = "search"
     /\ npushed' = track
     /\ IF q.connection = "null" /\ ~permitted
        THEN /\ sess' = [sess EXCEPT ![s] = pushed]
             /\ cmds' = [cmds EXCEPT ![c] = Finished]
        ELSE /\ sess' = [sess EXCEPT ![s] =
                           [pushed EXCEPT !.connection =
                              IF q.connection = "null" THEN "ready" ELSE @]]
             /\ cmds' = [cmds EXCEPT ![c] = [stage |-> "edit", s |-> s, track |-> track,
                                              busy |-> q.isPlaying,
                                              idle |-> cmds[c].idle]]
     /\ UNCHANGED <<queues, runs, timers, resolver, single, attempts, noticed, loaded>>

\* commandPlayStart without its test of queue.isPlaying
commandPlayStartUnguarded(c) ==
  LET w == playNextTrack(World)
  IN /\ cmds[c].stage = "edit"
     /\ Within(w)
     /\ Install(w)
     /\ cmds' = [cmds EXCEPT ![c] = Finished]
     /\ UNCHANGED <<npushed, resolver, single>>

\* after "await searchMsg.edit": if (!queue.isPlaying) playNextTrack(guildId)
commandPlayStart(c) ==
  LET w == IF sess[cmds[c].s].isPlaying THEN World ELSE playNextTrack(World)
  IN /\ cmds[c].stage = "edit"
     /\ Within(w)
     /\ Install(w)
     /\ cmds' = [cmds EXCEPT ![c] = Finished]
     /\ UNCHANGED <<npushed, resolver, single>>

StreamResolves(i) ==
  /\ i \in DOMAIN runs
  /\ MayResolve(runs[i].track)
  /\ Install(StreamResolved(World, i))
  /\ UNCHANGED <<cmds, npushed, resolver, single>>

StreamFails(i) ==
  LET w == StreamFailed(World, i)
  IN /\ i \in DOMAIN runs
     /\ MayFail(runs[i].track)
     /\ Within(w)
     /\ Install(w)
     /\ UNCHANGED <<cmds, npushed, resolver, single>>

\* a setTimeout(() => playNextTrack(guildId), ...) callback runs
TimerFires ==
  LET w == playNextTrack([World EXCEPT !.timers = @ - 1])
  IN /\ timers > 0
     /\ Within(w)
     /\ Install(w)
     /\ UNCHANGED <<cmds, npushed, resolver, single>>

\* ------------------------------------------------------- transport events
\* player.stop(): an idle player refuses; otherwise the resource is told to
\* end and the player reports Idle later, never inside the call (the resource
\* made by createAudioResource plays its closing silence first).
playerStop(q) ==
  IF q.status = "idle" THEN q ELSE [q EXCEPT !.stopping = TRUE]

\* queue.player.on(AudioPlayerStatus.Idle, ...), a closure over the session
\* object s: it reads s.loopMode and calls playNextTrack(guildId).
onIdle(w, s) ==
  IF w.sess[s].loopMode # TRACK
  THEN playNextTrack(w)
  ELSE [w EXCEPT !.timers = @ + 1]

\* queue.player.on('error', ...)
onError(w) ==
  playNextTrack(w)

\* The player of session s is heard (its connection is subscribed and alive)
\* and not paused, so its resource makes progress.
Audible(s) ==
  /\ s \in DOMAIN sess
  /\ sess[s].status = "playing"
  /\ sess[s].connection = "ready"

\* The resource ends (by itself, or after player.stop()): the player goes Idle.
PlayerIdle(s) ==
  LET w == onIdle([World EXCEPT !.sess[s].status = "idle",
                                !.sess[s].resource = 0,
                                !.sess[s].stopping = FALSE], s)
  IN /\ Audible(s)
     /\ Within(w)
     /\ Install(w)
     /\ UNCHANGED <<cmds, npushed, resolver, single>>

\* The resource's stream breaks: the player emits 'error' and then goes Idle,
\* so both handlers run, one after the other.
PlayerError(s) ==
  LET w1 == onError(World)
      w == onIdle([w1 EXCEPT !.sess[s].status = "idle",
                             !.sess[s].resource = 0,
                             !.sess[s].stopping = FALSE], s)
  IN /\ Audible(s)
     /\ ~sess[s].stopping
     /\ Within(w)
     /\ Install(w)
     /\ UNCHANGED <<cmds, npushed, resolver, single>>

\* VoiceConnectionStatus.Disconnected: the handler starts to wait (up to 5 s)
\* for the connection to enter Signalling or Connecting.  A connection that
\* is not ready carries no audio, so the player makes no progress meanwhile.
Disconnect(s) ==
  /\ s \in DOMAIN sess
  /\ sess[s].connection = "ready"
  /\ sess' = [sess EXCEPT ![s].connection = "waiting"]
  /\ UNCHANGED <<queues, runs, timers, cmds, npushed, resolver, single, attempts, noticed, loaded>>

\* The connection started to reconnect within the wait: Promise.race
\* resolves and the handler returns.
DisconnectRecovers(s) ==
  /\ s \in DOMAIN sess
  /\ sess[s].connection = "waiting"
  /\ sess' = [sess EXCEPT ![s].connection = "ready"]
  /\ UNCHANGED <<queues, runs, timers, cmds, npushed, resolver, single, attempts, noticed, loaded>>

\* DisconnectFatal without queues.delete(guildId)
DisconnectFatalKeepsEntry(s) ==
  /\ s \in DOMAIN sess
  /\ sess[s].connection = "waiting"
  /\ sess' = [sess EXCEPT ![s].connection = "destroyed"]
  /\ UNCHANGED <<queues, runs, timers, cmds, npushed, resolver, single, attempts, noticed, loaded>>

\* Neither Signalling nor Connecting within 5 s: the catch branch.  (When the
\* connection was destroyed during the wait, by stop or by the idle timer,
\* connection.destroy() throws inside the async handler; the rejection is
\* logged by the 'unhandledRejection' handler and nothing else happens.)
DisconnectFatal(s) ==
  /\ s \in DOMAIN sess
  /\ sess[s].connection = "waiting"
  /\ sess' = [sess EXCEPT ![s].connection = "destroyed"]
  /\ queues' = 0
  /\ UNCHANGED <<runs, timers, cmds, npushed, resolver, single, attempts, noticed, loaded>>

\* A play command of a process that has exited.
Exited ==
  [stage |-> "exit", s |-> 0, track |-> 0, busy |-> FALSE, idle |-> FALSE]

\* The callback of setIdleTimeout, a closure over the session object s.  On a
\* connection that was destroyed already, connection.destroy() throws; an
\* exception thrown inside a timer callback is caught by nobody (the file
\* installs handlers for 'unhandledRejection' and for the client's 'error'
\* only), so the process exits, and with it the table, every timer, every
\* resolution under way and every command in progress.
IdleExpires(s) ==
  /\ s \in DOMAIN sess
  /\ sess[s].idlePending
  /\ CASE sess[s].connection \in {"ready", "waiting"} ->
            /\ sess' = [sess EXCEPT ![s].idlePending = FALSE,
                                    ![s].connection = "destroyed"]
            /\ queues' = 0
            /\ UNCHANGED <<runs, timers, cmds>>
       [] sess[s].connection = "null" ->
            /\ sess' = [sess EXCEPT ![s].idlePending = FALSE]
            /\ UNCHANGED <<queues, runs, timers, cmds>>
       [] sess[s].connection = "destroyed" ->
            /\ sess' = [t \in DOMAIN sess |->
                          [sess[t] EXCEPT !.idlePending = FALSE,
                                          !.status = "idle",
                                          !.stopping = FALSE,
                                          !.connection =
                                             IF @ = "null" THEN @ ELSE "destroyed"]]
            /\ queues' = 0
            /\ runs' = <<>>
            /\ timers' = 0
            /\ cmds' = [c \in DOMAIN cmds |-> Exited]
  /\ UNCHANGED <<npushed, resolver, single, attempts, noticed, loaded>>

\* ----------------------------------------------------------------- commands
\* History: the track of session s that is in LOADING (it is the current
\* track, its resolution is under way and the player has nothing to play),
\* or 0.
Loading(s) ==
  IF /\ sess[s].currentTrack # 0
     /\ sess[s].status = "idle"
     /\ \E i \in DOMAIN runs : runs[i] = [s |-> s, track |-> sess[s].currentTrack]
  THEN sess[s].currentTrack
  ELSE 0

\* commandSkip, accepted: the loop mode is set to OFF and back to TRACK around
\* player.stop(), inside one synchronous segment.
commandSkip ==
  LET q == sess[queues]
      wasLooping == q.loopMode = TRACK
      q1 == IF wasLooping THEN [q EXCEPT !.loopMode = OFF] ELSE q
      q2 == playerStop(q1)
      q3 == IF wasLooping THEN [q2 EXCEPT !.loopMode = TRACK] ELSE q2
      q4 == IF wasLooping /\ q.queue # <<>> /\ q.status # "idle"
            THEN [q3 EXCEPT !.skipped = q.currentTrack] ELSE q3
      q5 == IF Loading(queues) # 0 THEN [q4 EXCEPT !.dropped = Loading(queues)] ELSE q4
  IN /\ queues # 0
     /\ q.isPlaying
     /\ sess' = [sess EXCEPT ![queues] = q5]
     /\ UNCHANGED <<queues, runs, timers, cmds, npushed, resolver, single, attempts, noticed, loaded>>

\* commandStop without queues.delete(guildId)
commandStopKeepsEntry ==
  LET q == sess[queues]
      q1 == playerStop([q EXCEPT !.queue = <<>>, !.currentTrack = 0,
                                 !.isPlaying = FALSE])
      w == clearIdleTimeout([World EXCEPT !.sess[queues] =
                                            [q1 EXCEPT !.connection = "destroyed"]])
  IN /\ queues # 0
     /\ q.connection # "null"
     /\ Install(w)
     /\ UNCHANGED <<cmds, npushed, resolver, single>>

\* commandStop without its test of queue.connection
commandStopUnguarded ==
  LET q == sess[queues]
      q1 == playerStop([q EXCEPT !.queue = <<>>, !.currentTrack = 0,
                                 !.isPlaying = FALSE])
      w == clearIdleTimeout([World EXCEPT !.sess[queues] =
                                            [q1 EXCEPT !.connection = "destroyed"]])
  IN /\ queues # 0
     /\ Install([w EXCEPT !.queues = 0])
     /\ UNCHANGED <<cmds, npushed, resolver, single>>

\* commandStop, accepted.
commandStop ==
  LET q == sess[queues]
      q1 == playerStop([q EXCEPT !.queue = <<>>, !.currentTrack = 0,
                                 !.isPlaying = FALSE])
      q2 == IF Loading(queues) # 0 THEN [q1 EXCEPT !.dropped = Loading(queues)] ELSE q1
      w == clearIdleTimeout([World EXCEPT !.sess[queues] =
                                            [q2 EXCEPT !.connection = "destroyed"]])
  IN /\ queues # 0
     /\ q.connection # "null"
     /\ Install([w EXCEPT !.queues = 0])
     /\ UNCHANGED <<cmds, npushed, resolver, single>>

\* commandPause, accepted: player.pause() acts on a playing player only.
commandPause ==
  LET q == sess[queues]
  IN /\ queues # 0
     /\ q.isPlaying
     /\ q.status # "paused"
     /\ sess' = [sess EXCEPT ![queues].status =
                   IF q.status = "playing" THEN "paused" ELSE @]
     /\ UNCHANGED <<queues, runs, timers, cmds, npushed, resolver, single, attempts, noticed, loaded>>

\* commandResume, accepted.
commandResume ==
  LET q == sess[queues]
  IN /\ queues # 0
     /\ q.currentTrack # 0
     /\ q.status = "paused"
     /\ sess' = [sess EXCEPT ![queues].status = "playing"]
     /\ UNCHANGED <<queues, runs, timers, cmds, npushed, resolver, single, attempts, noticed, loaded>>

\* commandLoop without its test of queue.currentTrack
commandLoopUnguarded ==
  LET q == sess[queues]
  IN /\ queues # 0
     /\ sess' = [sess EXCEPT ![queues].loopMode = (q.loopMode + 1) % 3]
     /\ UNCHANGED <<queues, runs, timers, cmds, npushed, resolver, single, attempts, noticed, loaded>>

\* commandLoop, accepted.
commandLoop ==
  LET q == sess[queues]
  IN /\ queues # 0
     /\ q.currentTrack # 0
     /\ sess' = [sess EXCEPT ![queues].loopMode = (q.loopMode + 1) % 3]
     /\ UNCHANGED <<queues, runs, timers, cmds, npushed, resolver, single, attempts, noticed, loaded>>

Next ==
  \/ \E c \in 1..MaxPlays, v \in BOOLEAN, a \in BOOLEAN : commandPlayBegin(c, v, a)
  \/ \E c \in 1..MaxPlays : commandPlayNotFound(c)
  \/ \E c \in 1..MaxPlays, p \in BOOLEAN : commandPlayPush(c, p)
  \/ \E c \in 1..MaxPlays : commandPlayStart(c)
  \/ \E i \in 1..MaxRuns : StreamResolves(i)
  \/ \E i \in 1..MaxRuns : StreamFails(i)
  \/ TimerFires
  \/ \E s \in 1..MaxSessions : PlayerIdle(s)
  \/ \E s \in 1..MaxSessions : PlayerError(s)
  \/ \E s \in 1..MaxSessions : Disconnect(s)
  \/ \E s \in 1..MaxSessions : DisconnectRecovers(s)
  \/ \E s \in 1..MaxSessions : DisconnectFatal(s)
  \/ \E s \in 1..MaxSessions : IdleExpires(s)
  \/ commandSkip
  \/ commandStop
  \/ commandPause
  \/ commandResume
  \/ commandLoop

Spec ==
  Init /\ [][Next]_vars

\* ------------------------------------------------- a resolver that always fails
InitAllFail ==
  /\ Start
  /\ resolver = "fails"

NextAllFail ==
  \/ \E c \in 1..MaxPlays, v \in BOOLEAN, a \in BOOLEAN : commandPlayBegin(c, v, a)
  \/ \E c \in 1..MaxPlays : commandPlayNotFound(c)
  \/ \E c \in 1..MaxPlays, p \in BOOLEAN : commandPlayPush(c, p)
  \/ \E c \in 1..MaxPlays : commandPlayStart(c)
  \/ \E i \in 1..MaxRuns : StreamFails(i)
  \/ TimerFires
  \/ \E s \in 1..MaxSessions : IdleExpires(s)
  \/ commandLoop

SpecAllFail ==
  InitAllFail /\ [][NextAllFail]_vars

\* ------------------------------------------------- a transport that stays healthy
\* Every command and event, except that no stream breaks in mid-play and the
\* voice connection is not lost.
NextCalm ==
  \/ \E c \in 1..MaxPlays, v \in BOOLEAN, a \in BOOLEAN : commandPlayBegin(c, v, a)
  \/ \E c \in 1..MaxPlays : commandPlayNotFound(c)
  \/ \E c \in 1..MaxPlays, p \in BOOLEAN : commandPlayPush(c, p)
  \/ \E c \in 1..MaxPlays : commandPlayStart(c)
  \/ \E i \in 1..MaxRuns : StreamResolves(i)
  \/ \E i \in 1..MaxRuns : StreamFails(i)
  \/ TimerFires
  \/ \E s \in 1..MaxSessions : PlayerIdle(s)
  \/ \E s \in 1..MaxSessions : IdleExpires(s)
  \/ commandSkip
  \/ commandStop
  \/ commandPause
  \/ commandResume
  \/ commandLoop

SpecCalm ==
  Init /\ [][NextCalm]_vars

\* ------------------------------------------------------------------- claims
\* the session registered for the guild has t as its current track
Current(t) ==
  queues # 0 /\ sess[queues].currentTrack = t

\* an execution of playNextTrack is waiting for the stream of t
Resolving(t) ==
  \E i \in DOMAIN runs : runs[i].track = t

\* C1: with a resolver that fails on every call, a track that was taken from
\* pending and that the advancer has moved on from (its session is alive and
\* has another current track, or none) has had exactly MAX_RETRIES + 1
\* resolution attempts.
C1_RetryBound ==
  \A t \in Tracks :
    (resolver = "fails" /\ attempts[t] > 0 /\ queues # 0 /\ ~Current(t))
      => attempts[t] = MAX_RETRIES + 1

\* C2: when the advancer replaces the current track t of a live session (by
\* the next track or by none) and t was never handed to the transport and no
\* resolution of t is still under way, a 'Playback Error' notice has named t.
C2_GiveUpIsNoticed ==
  [][\A t \in Tracks :
       (/\ Current(t)
        /\ queues' = queues
        /\ sess'[queues].currentTrack # t
        /\ sess'[queues].connection = sess[queues].connection
        /\ t \notin loaded'
        /\ \A i \in DOMAIN runs' : runs'[i].track # t)
         => t \in noticed']_vars

\* ------------------- looping, and one track that never resolves while the rest do
InitBadGood ==
  /\ Start
  /\ resolver = "bad1"

\* Play commands and the loop command only: no skip, no stop, no teardown.
NextLoop ==
  \/ \E c \in 1..MaxPlays : commandPlayBegin(c, TRUE, TRUE)
  \/ \E c \in 1..MaxPlays : commandPlayPush(c, TRUE)
  \/ \E c \in 1..MaxPlays : commandPlayStart(c)
  \/ \E i \in 1..MaxRuns : StreamResolves(i)
  \/ \E i \in 1..MaxRuns : StreamFails(i)
  \/ TimerFires
  \/ \E s \in 1..MaxSessions : PlayerIdle(s)
  \/ commandLoop

\* What the event loop and the collaborators guarantee: a promise that was
\* awaited settles, a timer that was set fires, a resource that plays ends.
\* Nothing obliges a user to send a command.
Progress ==
  /\ WF_vars(\E c \in 1..MaxPlays : commandPlayPush(c, TRUE))
  /\ WF_vars(\E c \in 1..MaxPlays : commandPlayStart(c))
  /\ WF_vars(\E i \in 1..MaxRuns : StreamResolves(i))
  /\ WF_vars(\E i \in 1..MaxRuns : StreamFails(i))
  /\ WF_vars(TimerFires)
  /\ WF_vars(\E s \in 1..MaxSessions : PlayerIdle(s))

FairBadGood ==
  InitBadGood /\ [][NextLoop]_vars /\ Progress

SpecLoop ==
  Init /\ [][NextLoop]_vars

\* C3: whenever pending holds the track that never resolves followed by a
\* track that resolves, the resolvable track eventually becomes the current
\* track, whatever the loop mode is or becomes.
C3_BadTrackDoesNotStopQueue ==
  (queues # 0 /\ sess[queues].queue = <<BadTrack, BadTrack + 1>>)
    ~> Current(BadTrack + 1)

\* C4: when the advancer next runs for a session after a skip was accepted
\* under TRACK with a non-empty pending, it makes the head of pending the
\* current track, and the loop mode is TRACK again.
C4_SkipAdvancesUnderTrackLoop ==
  [][\A s \in DOMAIN sess :
       (/\ sess[s].skipped # 0
        /\ sess'[s].skipped = 0
        /\ sess[s].queue # <<>>)
         => /\ sess'[s].currentTrack = Head(sess[s].queue)
            /\ sess'[s].loopMode = TRACK]_vars

\* C5: while the loop mode of the registered session stays TRACK and it has a
\* current track that was handed to the transport, no step (the track ending
\* and the advancer running after it included) takes the current track away
\* or takes a track out of pending, whether pending is empty or not.
C5_TrackLoopKeepsCurrent ==
  [][(/\ queues # 0
      /\ queues' = queues
      /\ sess[queues].loopMode = TRACK
      /\ sess'[queues].loopMode = TRACK
      /\ sess[queues].currentTrack # 0
      /\ sess[queues].currentTrack \in loaded)
       => /\ sess'[queues].currentTrack = sess[queues].currentTrack
          /\ Len(sess'[queues].queue) >= Len(sess[queues].queue)]_vars

\* C6: when the resource of a session ends by itself while the loop mode is
\* QUEUE, the track that ended is in pending once the Idle handler has run
\* (it could not be at the tail of pending without being in pending).
C6_QueueLoopRequeuesFinished ==
  [][\A s \in DOMAIN sess :
       (/\ PlayerIdle(s)
        /\ ~sess[s].stopping
        /\ sess[s].loopMode = QUEUE
        /\ queues = s)
         => sess[s].resource \in Range(sess'[s].queue)]_vars

\* C7: under QUEUE, a track that never resolves and has used up its
\* MAX_RETRIES + 1 attempts is not selected from pending again: no such
\* track gets a further attempt.
C7_BrokenTrackLeavesQueueLoop ==
  \A s \in DOMAIN sess : \A t \in Tracks :
    (sess[s].loopMode = QUEUE /\ t \in Range(sess[s].queue))
      => attempts[t] <= MAX_RETRIES + 1

\* number of times t occurs in the sequence q
Count(q, t) ==
  Cardinality({i \in DOMAIN q : q[i] = t})

\* C8: when a play command that passed its checks appends its track, the
\* track is then exactly once in pending of the session that the table
\* holds for the guild.
C8_EnqueueExactlyOnce ==
  [][\A c \in DOMAIN cmds :
       (cmds[c].stage = "search" /\ cmds'[c].stage = "edit")
         => /\ queues' # 0
            /\ Count(sess'[queues'].queue, cmds'[c].track) = 1]_vars

\* ------------------------------------------- loop mode OFF and no teardown
NextOff ==
  \/ \E c \in 1..MaxPlaysOff : commandPlayBegin(c, TRUE, TRUE)
  \/ \E c \in 1..MaxPlaysOff : commandPlayPush(c, TRUE)
  \/ \E c \in 1..MaxPlaysOff : commandPlayStart(c)
  \/ \E i \in 1..MaxRuns : StreamResolves(i)
  \/ \E i \in 1..MaxRuns : StreamFails(i)
  \/ TimerFires
  \/ \E s \in 1..MaxSessions : PlayerIdle(s)
  \/ \E s \in 1..MaxSessions : PlayerError(s)
  \/ commandSkip

SpecOff ==
  Init /\ [][NextOff]_vars

Sorted(q) ==
  \A i, j \in DOMAIN q : i < j => q[i] < q[j]

\* C9: under loop mode OFF, on a guild that started empty, pending always
\* holds its tracks in the order of the enqueue calls (tracks are numbered in
\* that order), and a track is handed to the transport only after every
\* track that was handed over before it was enqueued before it.
C9_LoadsFollowEnqueueOrder ==
  [][/\ \A s \in DOMAIN sess' : Sorted(sess'[s].queue)
     /\ \A t \in loaded' \ loaded : \A u \in loaded : u < t]_vars

\* C10: a play command that appends its track to a session that is playing
\* appends it at the tail of pending and changes neither the current track,
\* the playing flag, the loop mode, the retry count, the player, the
\* suspended resolutions nor the timers; a play command that finds its
\* session playing when it returns from its last await changes nothing and
\* starts no resolution; one that finds it not playing starts the advancer
\* once: exactly one more resolution is under way, for the new current track,
\* if the registered session had a pending track, and none, with the idle
\* timer armed, if it had not.
C10_EnqueueFrame ==
  [][\A c \in DOMAIN cmds :
       LET s == cmds[c].s
       IN /\ (cmds[c].stage = "search" /\ cmds'[c].stage = "edit" /\ sess[s].isPlaying)
               => /\ sess'[s].queue = Append(sess[s].queue, cmds'[c].track)
                  /\ sess'[s].currentTrack = sess[s].currentTrack
                  /\ sess'[s].isPlaying
                  /\ sess'[s].loopMode = sess[s].loopMode
                  /\ sess'[s].retryCount = sess[s].retryCount
                  /\ sess'[s].status = sess[s].status
                  /\ sess'[s].resource = sess[s].resource
                  /\ <<runs, timers, loaded, attempts>>' = <<runs, timers, loaded, attempts>>
          /\ (cmds[c].stage = "edit" /\ cmds'[c].stage = "done" /\ sess[s].isPlaying)
               => <<queues, sess, runs, timers, loaded, attempts>>'
                    = <<queues, sess, runs, timers, loaded, attempts>>
          /\ (cmds[c].stage = "edit" /\ cmds'[c].stage = "done" /\ ~sess[s].isPlaying)
               => IF queues # 0 /\ sess[queues].queue # <<>>
                  THEN /\ Len(runs') = Len(runs) + 1
                       /\ \E i \in DOMAIN runs' :
                            /\ runs'[i] = [s |-> queues, track |-> sess'[queues].currentTrack]
                            /\ runs' = Suspend(runs, runs'[i])
                       /\ sess'[queues].isPlaying
                       /\ queues' = queues
                  ELSE /\ runs' = runs
                       /\ queues' # 0
                       /\ sess'[queues'].idlePending
                       /\ ~sess'[queues'].isPlaying]_vars

\* Command 2 has appended track 2 to a session that was playing track 1,
\* which the advancer loaded after command 1 started it.
C10_Witness ==
  /\ cmds[1] = Finished
  /\ cmds[2].stage = "edit"
  /\ cmds[2].busy
  /\ LET q == sess[cmds[2].s]
     IN /\ q.isPlaying
        /\ q.status = "playing"
        /\ q.currentTrack = 1
        /\ q.queue = <<2>>
        /\ runs = <<>>

\* C11: when the idle timer of the registered session expires while its
\* pending is empty and it has no current track, the session is destroyed as
\* stop would destroy it: afterwards its connection is destroyed and the
\* guild has no entry in the table.
C11_IdleExpiryDestroys ==
  [][\A s \in DOMAIN sess :
       (/\ IdleExpires(s)
        /\ queues = s
        /\ sess[s].queue = <<>>
        /\ sess[s].currentTrack = 0)
         => /\ queues' = 0
            /\ sess'[s].connection = "destroyed"]_vars

\* C12: once a play command was accepted on the registered session while
\* its idle timer was pending (the command passed its checks and has not
\* returned yet), the expiry of the idle timer does not take that session
\* out of the table.
C12_AcceptedPlayCancelsExpiry ==
  [][\A s \in DOMAIN sess : \A c \in DOMAIN cmds :
       (/\ cmds[c].stage \in {"search", "edit"}
        /\ cmds[c].idle
        /\ cmds[c].s = s
        /\ queues = s
        /\ IdleExpires(s))
         => queues' = s]_vars

\* the fields of a session that getQueue has just made
Fresh(q) ==
  /\ q.queue = <<>>
  /\ q.currentTrack = 0
  /\ ~q.isPlaying
  /\ q.retryCount = 0
  /\ q.loopMode = OFF
  /\ q.connection = "null"

\* C13: an accepted stop empties pending, clears the current track and the
\* playing flag, destroys the connection, disarms the idle timer and removes
\* the session from the table; a destroyed session is never in the table
\* again, and a play command that is accepted on a session no track was ever
\* pushed to (as is every session made after a stop, until its first
\* enqueue) finds pending empty, no current track, retryCount 0 and loop OFF.
C13_StopDestroysAndNextStartsFresh ==
  [][/\ commandStop =>
          /\ queues' = 0
          /\ sess'[queues].queue = <<>>
          /\ sess'[queues].currentTrack = 0
          /\ ~sess'[queues].isPlaying
          /\ sess'[queues].connection = "destroyed"
          /\ ~sess'[queues].idleTimeout
          /\ ~sess'[queues].idlePending
     /\ queues' # 0 => sess'[queues'].connection # "destroyed"
     /\ \A c \in DOMAIN cmds :
          (cmds[c].stage = "new" /\ cmds'[c].stage = "search"
             /\ ~sess'[cmds'[c].s].textChannel)
            => Fresh(sess'[cmds'[c].s])]_vars

\* Session 1 was stopped while its player was playing, and the second play
\* command was accepted on session 2, made after the stop.
C13_Witness ==
  /\ Len(sess) = 2
  /\ sess[1].connection = "destroyed"
  /\ sess[1].stopping
  /\ sess[1].currentTrack = 0
  /\ queues = 2
  /\ cmds[2].stage = "search"
  /\ cmds[2].s = 2

\* the cycle order OFF, TRACK, QUEUE, OFF
Cycle(m) ==
  IF m = OFF THEN TRACK ELSE IF m = TRACK THEN QUEUE ELSE OFF

\* C16: the loop mode of a session changes only on the registered session
\* and only while it has a current track; the change follows the cycle OFF,
\* TRACK, QUEUE, OFF, so that two more changes restore the mode; and the
\* step changes nothing but the loop mode.
C16_LoopCycles ==
  [][\A s \in DOMAIN sess :
       sess'[s].loopMode # sess[s].loopMode
         => /\ queues = s
            /\ sess[s].currentTrack # 0
            /\ sess'[s].loopMode = Cycle(sess[s].loopMode)
            /\ Cycle(Cycle(sess'[s].loopMode)) = sess[s].loopMode
            /\ sess' = [sess EXCEPT ![s].loopMode = sess'[s].loopMode]
            /\ <<queues, runs, timers, cmds, npushed, attempts, noticed, loaded>>'
                 = <<queues, runs, timers, cmds, npushed, attempts, noticed, loaded>>]_vars

\* Two loop commands were accepted while track 1 plays.
C16_Witness ==
  /\ queues # 0
  /\ sess[queues].loopMode = QUEUE
  /\ sess[queues].currentTrack = 1
  /\ sess[queues].status = "playing"

\* C17: skip and pause act only on a registered session that is playing,
\* resume only on one that has a current track and a paused player, stop
\* only on one that has a connection; so the player is told to stop, is
\* paused or is resumed by a command, and the table entry is removed, only
\* when that holds, and none of the four commands creates a session.
C17_RejectedCommandsChangeNothing ==
  [][/\ (commandSkip \/ commandPause) => (queues # 0 /\ sess[queues].isPlaying)
     /\ commandResume => /\ queues # 0
                         /\ sess[queues].currentTrack # 0
                         /\ sess[queues].status = "paused"
     /\ commandStop => (queues # 0 /\ sess[queues].connection # "null")
     /\ (commandSkip \/ commandPause \/ commandResume \/ commandStop)
          => Len(sess') = Len(sess)
     /\ (queues # 0 /\ queues' = 0) => sess[queues].connection # "null"
     /\ \A s \in DOMAIN sess :
          /\ (~sess[s].stopping /\ sess'[s].stopping)
               => (queues = s /\ (sess[s].isPlaying \/ sess[s].connection # "null"))
          /\ (sess[s].status = "playing" /\ sess'[s].status = "paused")
               => (queues = s /\ sess[s].isPlaying)
          /\ (sess[s].status = "paused" /\ sess'[s].status = "playing" /\ runs' = runs)
               => (queues = s /\ sess[s].currentTrack # 0)]_vars

\* Session 1 was stopped while it played; the registered session 2 has no
\* connection, no current track and is not playing, so that skip, pause,
\* resume and stop are all rejected on it.
C17_Witness ==
  /\ Len(sess) = 2
  /\ sess[1].stopping
  /\ sess[1].connection = "destroyed"
  /\ queues = 2
  /\ sess[2].connection = "null"
  /\ ~sess[2].isPlaying
  /\ sess[2].currentTrack = 0
  /\ cmds[2].stage = "new"

\* C18: a guild that has no session gets one only in a step in which a play
\* command passes its checks, and a play command that ends without having
\* enqueued (no search result, or the bot lacks Connect or Speak) leaves
\* pending of its session as it was.
C18_RejectedPlayCreatesNothing ==
  [][/\ (queues = 0 /\ queues' # 0)
          => \E c \in DOMAIN cmds : cmds[c].stage = "new" /\ cmds'[c].stage = "search"
     /\ \A c \in DOMAIN cmds :
          (cmds[c].stage = "search" /\ cmds'[c] = Finished)
            => sess'[cmds[c].s].queue = sess[cmds[c].s].queue]_vars

\* C14: when skip or stop was accepted while a track of the session was in
\* LOADING, and the advancer has not selected a track for the session since,
\* the resolution of that track does not hand it to the player, and if the
\* track is the current track at that moment it does not stay so.
C14_LateResolutionDiscarded ==
  [][\A i \in DOMAIN runs :
       (/\ StreamResolves(i)
        /\ sess[runs[i].s].dropped = runs[i].track)
         => /\ sess'[runs[i].s].resource # runs[i].track
            /\ sess'[runs[i].s].currentTrack # runs[i].track]_vars

\* C19: when a play command pushes its track while another track is the
\* current one, the position it reports is the index of its track in
\* pending, counted from 1.
C19_ReportedPositionIsIndex ==
  [][\A c \in DOMAIN cmds :
       (/\ cmds[c].stage = "search"
        /\ cmds'[c].stage = "edit"
        /\ sess[cmds[c].s].currentTrack # 0)
         => LET q == sess'[cmds[c].s]
            IN /\ position(q) \in DOMAIN q.queue
               /\ q.queue[position(q)] = cmds'[c].track]_vars

\* ---------------------------------------------------- the single-queue variant
\* src/unnamed/part_000 keeps one queue, one player and one connection for the
\* whole process, whatever guild a command comes from.
Guilds ==
  1..MaxGuilds

botVars ==
  <<queues, sess, runs, timers, cmds, npushed, resolver, attempts, noticed, loaded>>

InsertSorted(ls, n) ==
  LET k == Cardinality({i \in DOMAIN ls : ls[i] <= n})
  IN SubSeq(ls, 1, k) \o <<n>> \o SubSeq(ls, k + 1, Len(ls))

\* playSong up to "await play.stream(song.url)"
playSong(v) ==
  IF v.queue = <<>>
  THEN [v EXCEPT !.isPlaying = FALSE]
  ELSE [v EXCEPT !.isPlaying = TRUE, !.loads = InsertSorted(@, Head(v.queue).id)]

\* %play up to "await play.search": lastMessage, the two checks, the join.
playCommandBegin(g, hasQuery, inVoice) ==
  /\ single.alive
  /\ g \notin single.searching
  /\ single.npushed + Cardinality(single.searching) < MaxSongs
  /\ single' = IF hasQuery /\ inVoice
               THEN [single EXCEPT !.lastMessage = g, !.connection = g,
                                   !.searching = @ \cup {g}]
               ELSE [single EXCEPT !.lastMessage = g]
  /\ UNCHANGED botVars

\* play.search found nothing.
playCommandNotFound(g) ==
  /\ single.alive
  /\ g \in single.searching
  /\ single' = [single EXCEPT !.searching = @ \ {g}]
  /\ UNCHANGED botVars

\* play.search found a song: push, and playSong if nothing is playing.
playCommandFound(g) ==
  LET song == [id |-> single.npushed + 1, by |-> g]
      v == [single EXCEPT !.searching = @ \ {g}, !.npushed = @ + 1,
                          !.queue = Append(@, song)]
      v1 == IF v.isPlaying THEN v ELSE playSong(v)
  IN /\ single.alive
     /\ g \in single.searching
     /\ Len(v1.loads) <= MaxLoads
     /\ single' = v1
     /\ UNCHANGED botVars

\* play.stream resolved: createAudioResource, player.play, subscribe.
songStreamResolves(i) ==
  /\ single.alive
  /\ i \in DOMAIN single.loads
  /\ MayResolve(single.loads[i])
  /\ single' = [single EXCEPT !.loads = RemoveAt(@, i),
                              !.status = "playing",
                              !.resource = single.loads[i],
                              !.stopping = FALSE,
                              !.loaded = @ \cup {single.loads[i]}]
  /\ UNCHANGED botVars

\* play.stream threw: nothing catches it in playSong and nobody awaits
\* playSong, so the rejection is unhandled; the process exits or goes on,
\* as the runtime is set up.
songStreamThrows(i, exits) ==
  /\ single.alive
  /\ i \in DOMAIN single.loads
  /\ MayFail(single.loads[i])
  /\ single' = [single EXCEPT !.loads = RemoveAt(@, i), !.alive = ~exits]
  /\ UNCHANGED botVars

\* player.on(AudioPlayerStatus.Idle, ...): the resource ended, by itself or
\* after player.stop().
songIdle ==
  LET v == [single EXCEPT !.status = "idle", !.resource = 0, !.stopping = FALSE,
                          !.queue = IF @ = <<>> THEN @ ELSE Tail(@)]
      v1 == IF v.queue # <<>> THEN playSong(v) ELSE [v EXCEPT !.isPlaying = FALSE]
  IN /\ single.alive
     /\ single.status = "playing"
     /\ Len(v1.loads) <= MaxLoads
     /\ single' = v1
     /\ UNCHANGED botVars

\* %skip
skipCommand(g) ==
  /\ single.alive
  /\ single' = IF single.isPlaying /\ single.status # "idle"
               THEN [single EXCEPT !.lastMessage = g, !.stopping = TRUE]
               ELSE [single EXCEPT !.lastMessage = g]
  /\ UNCHANGED botVars

\* %stop
stopCommand(g) ==
  /\ single.alive
  /\ single' = [single EXCEPT !.lastMessage = g,
                              !.cleared = @ \cup {single.queue[i].id : i \in DOMAIN single.queue},
                              !.queue = <<>>,
                              !.stopping = (single.status # "idle"),
                              !.isPlaying = FALSE]
  /\ UNCHANGED botVars

NextSingle ==
  \/ \E g \in Guilds, a \in BOOLEAN, v \in BOOLEAN : playCommandBegin(g, a, v)
  \/ \E g \in Guilds : playCommandNotFound(g)
  \/ \E g \in Guilds : playCommandFound(g)
  \/ \E i \in 1..MaxLoads : songStreamResolves(i)
  \/ \E i \in 1..MaxLoads, x \in BOOLEAN : songStreamThrows(i, x)
  \/ songIdle
  \/ \E g \in Guilds : skipCommand(g)
  \/ \E g \in Guilds : stopCommand(g)

SpecSingle ==
  Init /\ [][NextSingle]_vars

\* What the event loop and the collaborators guarantee to the variant: an
\* awaited promise settles and a resource that plays ends.
ProgressSingle ==
  /\ WF_vars(\E g \in Guilds : playCommandFound(g))
  /\ WF_vars(\E i \in 1..MaxLoads : songStreamResolves(i))
  /\ WF_vars(\E i \in 1..MaxLoads, x \in BOOLEAN : songStreamThrows(i, x))
  /\ WF_vars(songIdle)

FairSingleBadGood ==
  InitBadGood /\ [][NextSingle]_vars /\ ProgressSingle

\* the songs of guild h in the queue of the variant
SongsOf(h) ==
  SelectSeq(single.queue, LAMBDA song : song.by = h)

\* C15: a command of guild g leaves what belongs to another guild h as it
\* was: the songs h has in the queue, and, while the song at the head of the
\* queue (the current one) is h's, the player is not told to stop.  (In
\* src/bot.js every access goes through the table keyed by the guild id; the
\* single-queue variant is the file that has no such table.)
C15_GuildIsolation ==
  [][\A g \in Guilds : \A h \in Guilds \ {g} :
       (\/ \E a \in BOOLEAN, v \in BOOLEAN : playCommandBegin(g, a, v)
        \/ playCommandFound(g)
        \/ skipCommand(g)
        \/ stopCommand(g))
         => /\ SongsOf(h)' = SongsOf(h)
            /\ (single.queue # <<>> /\ Head(single.queue).by = h)
                 => single'.stopping = single.stopping]_vars

\* C20: in the single-queue variant, a song that is in the queue is
\* eventually handed to the player, unless %stop takes it out of the queue.
C20_EverySongIsLoaded ==
  \A k \in 1..MaxSongs :
    (\E i \in DOMAIN single.queue : single.queue[i].id = k)
      ~> (k \in single.loaded \/ k \in single.cleared)

\* C21: in every state, every session has a current track exactly when its
\* playing flag is set (so no step sets one without the other).
C21_CurrentIffPlaying ==
  \A s \in DOMAIN sess : (sess[s].currentTrack # 0) <=> sess[s].isPlaying

\* Track 1 has ended under TRACK and the delayed re-invocation is pending:
\* the window between a track finishing and the next selection.
C21_Witness ==
  /\ queues # 0
  /\ sess[queues].currentTrack = 1
  /\ sess[queues].isPlaying
  /\ sess[queues].loopMode = TRACK
  /\ sess[queues].status = "idle"
  /\ 1 \in loaded
  /\ runs = <<>>
  /\ timers = 1

\* C22: in every state, the idle timer of the registered session is pending
\* exactly when its pending is empty and it has no current track.
C22_IdleTimerIffEmpty ==
  queues # 0 =>
    (sess[queues].idlePending
       <=> (sess[queues].queue = <<>> /\ sess[queues].currentTrack = 0))

\* C23: retryCount of every session is between 0 and MAX_RETRIES; it is 0
\* when a selection has just started a resolution for the session; and the
\* retryCount of the registered session grows only by one, and only in a
\* step in which a resolution of that session's current track fails.
C23_RetryCountDiscipline ==
  [][\A s \in DOMAIN sess' :
       /\ sess'[s].retryCount \in 0..MAX_RETRIES
       /\ (Cardinality({i \in DOMAIN runs' : runs'[i].s = s})
             > Cardinality({i \in DOMAIN runs : runs[i].s = s}))
            => sess'[s].retryCount = 0
       /\ (s = queues /\ queues' = queues
             /\ sess'[s].retryCount > sess[s].retryCount)
            => /\ sess'[s].retryCount = sess[s].retryCount + 1
               /\ \E i \in DOMAIN runs :
                    /\ StreamFails(i)
                    /\ runs[i] = [s |-> s, track |-> sess[s].currentTrack]]_vars

\* C24: when the retry timer fires after a resolution of the current track
\* failed with retryCount below MAX_RETRIES (so retryCount is above 0 and no
\* resolution is under way), the resolution that starts is for the same
\* track and pending is as it was.
C24_RetrySameTrack ==
  [][(/\ TimerFires
      /\ queues # 0
      /\ sess[queues].retryCount > 0
      /\ sess[queues].currentTrack # 0
      /\ runs = <<>>)
       => /\ sess'[queues].currentTrack = sess[queues].currentTrack
          /\ sess'[queues].queue = sess[queues].queue
          /\ runs' = <<[s |-> queues, track |-> sess[queues].currentTrack]>>]_vars

\* C25: when the advancer selects a track for the registered session (one
\* more resolution is under way), then under TRACK with a current track the
\* current track and pending are as before; otherwise the head of pending
\* becomes the current track and leaves pending, and under QUEUE it is
\* appended at the tail, so that pending keeps its length under QUEUE and
\* is one shorter otherwise; the resolution is for the selected track.  A
\* timer callback that finds pending non-empty does select.
C25_SelectionRule ==
  [][/\ (queues # 0 /\ sess[queues].queue # <<>> /\ Len(runs') = Len(runs) + 1)
          => LET q == sess[queues]
                 q1 == sess'[queues]
             IN /\ queues' = queues
                /\ runs' = Suspend(runs, [s |-> queues, track |-> q1.currentTrack])
                /\ IF q.loopMode = TRACK /\ q.currentTrack # 0
                   THEN /\ q1.currentTrack = q.currentTrack
                        /\ q1.queue = q.queue
                   ELSE /\ q1.currentTrack = Head(q.queue)
                        /\ q1.queue = IF q.loopMode = QUEUE
                                      THEN Tail(q.queue) \o <<Head(q.queue)>>
                                      ELSE Tail(q.queue)
                        /\ Len(q1.queue) = IF q.loopMode = QUEUE
                                           THEN Len(q.queue)
                                           ELSE Len(q.queue) - 1
     /\ (TimerFires /\ queues # 0 /\ sess[queues].queue # <<>>)
          => Len(runs') = Len(runs) + 1]_vars

\* Under QUEUE the advancer has selected track 2 from pending <<2>> after
\* track 1 was played: track 2 is current, is being resolved, and is back
\* at the tail of pending.
C25_Witness ==
  /\ queues # 0
  /\ sess[queues].loopMode = QUEUE
  /\ sess[queues].currentTrack = 2
  /\ sess[queues].queue = <<2>>
  /\ runs = <<[s |-> queues, track |-> 2]>>
  /\ 1 \in loaded

\* C26: at no time are two resolutions under way for one session.
C26_OneRunInFlight ==
  \A s \in DOMAIN sess : Cardinality({i \in DOMAIN runs : runs[i].s = s}) <= 1

\* The last session of the guild was torn down by commandStop and no play
\* command has created another since (stop clears the idle timer handle, the
\* idle timer callback leaves it).
Stopped ==
  /\ queues = 0
  /\ sess # <<>>
  /\ sess[Len(sess)].connection = "destroyed"
  /\ ~sess[Len(sess)].idleTimeout

\* C28: once stop has succeeded, no step other than a step of a play
\* command hands a track to a player or puts a session into the table,
\* whatever timer or resolution set up before the stop completes.
C28_NothingAfterStop ==
  [][(/\ Stopped
      /\ cmds' = cmds
      /\ ~\E c \in DOMAIN cmds, v, a \in BOOLEAN : commandPlayBegin(c, v, a)) =>
       /\ queues' = 0
       /\ \A s \in DOMAIN sess :
            sess'[s].resource = sess[s].resource \/ sess'[s].resource = 0]_vars

\* ------------------------------------------------- a voice connection that drops
\* Play, stop and loop commands, resolutions that succeed, tracks that end,
\* the idle timer, and a voice connection that is lost and either recovers
\* within the wait or does not.
NextLink ==
  \/ \E c \in 1..MaxPlays : commandPlayBegin(c, TRUE, TRUE)
  \/ \E c \in 1..MaxPlays : commandPlayPush(c, TRUE)
  \/ \E c \in 1..MaxPlays : commandPlayStart(c)
  \/ \E i \in 1..MaxRuns : StreamResolves(i)
  \/ TimerFires
  \/ \E s \in 1..MaxSessions : PlayerIdle(s)
  \/ \E s \in 1..MaxSessions : Disconnect(s)
  \/ \E s \in 1..MaxSessions : DisconnectRecovers(s)
  \/ \E s \in 1..MaxSessions : DisconnectFatal(s)
  \/ \E s \in 1..MaxSessions : IdleExpires(s)
  \/ commandStop
  \/ commandLoop

SpecLink ==
  Init /\ [][NextLink]_vars

\* C27: the handling of a lost connection ends in one of two ways.  If the
\* connection does not start to reconnect within the wait, the connection of
\* the session is destroyed and the table has no entry for the guild.  If it
\* does, the session stays registered with the same pending, current track,
\* playing flag and loop mode, as it did when the connection was lost.  A
\* registered session whose handler is waiting leaves the table only by the
\* failed wait, by stop or by an idle timer.
C27_DisconnectDestroysIffNoReconnect ==
  [][\A s \in DOMAIN sess :
       /\ DisconnectFatal(s)
            => /\ queues = s
               /\ queues' = 0
               /\ sess'[s].connection = "destroyed"
       /\ (Disconnect(s) \/ DisconnectRecovers(s))
            => /\ queues = s
               /\ queues' = s
               /\ sess'[s].connection # "destroyed"
               /\ sess'[s].queue = sess[s].queue
               /\ sess'[s].currentTrack = sess[s].currentTrack
               /\ sess'[s].isPlaying = sess[s].isPlaying
               /\ sess'[s].loopMode = sess[s].loopMode
       /\ (sess[s].connection = "waiting"
             /\ (queues' # s \/ sess'[s].connection = "destroyed"))
            => \/ DisconnectFatal(s)
               \/ commandStop
               \/ \E t \in DOMAIN sess : IdleExpires(t)]_vars

\* The connection of the only session was lost while track 1 was playing
\* under QUEUE with track 2 pending, and did not recover: the session is
\* gone with its contents as they were (stop would have emptied it, the idle
\* timer was never armed).
C27_Witness ==
  /\ queues = 0
  /\ Len(sess) = 1
  /\ sess[1].connection = "destroyed"
  /\ sess[1].isPlaying
  /\ sess[1].currentTrack = 1
  /\ sess[1].queue = <<2>>
  /\ sess[1].loopMode = QUEUE
  /\ sess[1].status = "playing"
  /\ ~sess[1].idleTimeout

\* C29: the callback of an idle timer armed by a session that is no longer
\* the registered one leaves the table entry of the registered session alone.
C29_IdleTimerSparesNewerSession ==
  [][\A s \in DOMAIN sess :
       (IdleExpires(s) /\ queues # 0 /\ queues # s) => queues' = queues]_vars

\* ------------------------------------------------- loop mode OFF, left alone
\* The idle timer runs for IDLE_TIMEOUT (300000 ms), the timers that re-invoke
\* playNextTrack for 1000 ms or 500 ms, and every playNextTrack clears the
\* idle timer: an idle timer does not expire while a re-invocation is pending.
\* (A call of play.stream has no time limit and may outlast the idle timer.)
IdleExpiresInTime(s) ==
  /\ timers = 0
  /\ IdleExpires(s)

\* Play commands fill the queue; after that only the collaborators act:
\* resolutions succeed or fail, tracks end or break, timers fire.
NextDrain ==
  \/ \E c \in 1..MaxPlaysOff : commandPlayBegin(c, TRUE, TRUE)
  \/ \E c \in 1..MaxPlaysOff : commandPlayPush(c, TRUE)
  \/ \E c \in 1..MaxPlaysOff : commandPlayStart(c)
  \/ \E i \in 1..MaxRuns : StreamResolves(i)
  \/ \E i \in 1..MaxRuns : StreamFails(i)
  \/ TimerFires
  \/ \E s \in 1..MaxSessions : PlayerIdle(s)
  \/ \E s \in 1..MaxSessions : PlayerError(s)
  \/ \E s \in 1..MaxSessions : IdleExpiresInTime(s)

\* A command that was accepted runs to its end, a play.stream call settles
\* one way or the other, a timer that is pending fires, a resource that
\* plays ends one way or the other.
ProgressDrain ==
  /\ WF_vars(\E c \in 1..MaxPlaysOff : commandPlayPush(c, TRUE))
  /\ WF_vars(\E c \in 1..MaxPlaysOff : commandPlayStart(c))
  /\ WF_vars(\E i \in 1..MaxRuns : StreamResolves(i) \/ StreamFails(i))
  /\ WF_vars(TimerFires)
  /\ WF_vars(\E s \in 1..MaxSessions : PlayerIdle(s) \/ PlayerError(s))
  /\ WF_vars(\E s \in 1..MaxSessions : IdleExpiresInTime(s))

FairDrain ==
  Init /\ [][NextDrain]_vars /\ ProgressDrain

\* Every play command has run to its end, all of them on the first session
\* of the guild, which is registered.
CommandsOver ==
  /\ \A c \in 1..MaxPlaysOff : cmds[c].stage = "done"
  /\ Len(sess) = 1
  /\ queues = 1

\* C30: under OFF, once the commands are over, the session is eventually
\* destroyed for good: from some time on the table has no session for the
\* guild.
C30_DrainsAndIsDestroyed ==
  CommandsOver ~> [](queues = 0)

\* the ids of the songs in the queue of the variant
QueuedIds(v) ==
  {v.queue[i].id : i \in DOMAIN v.queue}

\* C31: in the single-queue variant, after every step, a song that is loaded
\* in the player (and that the player was not told to stop) is the head of
\* the queue and isPlaying is true; and a step of the Idle handler takes the
\* song that ended, and no other song, out of the queue.
C31_LoadedSongIsHead ==
  [][/\ (single'.status = "playing" /\ ~single'.stopping)
          => /\ single'.isPlaying
             /\ single'.queue # <<>>
             /\ Head(single'.queue).id = single'.resource
     /\ songIdle
          => QueuedIds(single') = QueuedIds(single) \ {single.resource}]_vars

====
